---- MODULE Spec2Model ----
(***************************************************************************)
(* Firewall Assistant: the profile manager (firewall_assistant/profiles.py) *)
(* and the session that drives it (firewall_assistant/ui/main_window.py).   *)
(*                                                                         *)
(* State: the persisted configuration document (disk), the configuration   *)
(* object a session holds in memory (cfg), the profile the window treats   *)
(* as current, the clock, and, for the last call made, its arguments       *)
(* (call), its result (ret) and the ordered effects it had (trace); calls  *)
(* counts the calls the session has made. log_file is the content of the   *)
(* activity log (firewall_assistant/activity_log.py) as get_recent_events  *)
(* reads it; the specifications of the configuration keep the records a    *)
(* call appends in trace and leave the file's lines out. native is what    *)
(* the firewall adapter last enforced (firewall_assistant/firewall_win.py); *)
(* only the specification of synchronization follows it, the others keep   *)
(* the adapter call as an effect in trace.                                 *)
(***************************************************************************)
EXTENDS Integers, Sequences, FiniteSets, TLC

VARIABLES disk, cfg, current_profile_name, now, call, ret, trace, calls, log_file,
          native

vars == <<disk, cfg, current_profile_name, now, call, ret, trace, calls, log_file,
          native>>

----------------------------------------------------------------------------
(* Bounds of the exploration *)

\* clock resolution: utcnow() is finer than the second-precision text stored
TicksPerSecond == 2
\* how many grant periods the clock may advance
MaxPeriods == 2
\* how many calls a session makes
MaxCalls == 3

(* Program constants *)

\* timedelta(minutes=...)
SecondsPerMinute == 60
\* minutes: int = 60, and the window's minutes=60
DefaultMinutes == 60

MinuteTicks == SecondsPerMinute * TicksPerSecond
PeriodTicks == DefaultMinutes * MinuteTicks
MaxTime == MaxPeriods * PeriodTicks + (TicksPerSecond - 1)

----------------------------------------------------------------------------
(* Values *)

Actions == {"allow", "block"}

\* executable paths as callers give them; one is a spelling of another
PathX == "/opt/app/x"
PathXAlias == "/opt/app/../app/x"
PathCurl == "/usr/bin/curl"
RawPaths == {PathX, PathXAlias, PathCurl}

\* str(Path(exe_path).resolve())
Resolve(exe_path) == IF exe_path = PathXAlias THEN PathX ELSE exe_path

Apps == {Resolve(p) : p \in RawPaths}

\* temporary_until: None, the text of a timestamp, or text that does not parse
NoTS == [kind |-> "none", t |-> 0]
TS(t) == [kind |-> "ts", t |-> t]
BadTS == [kind |-> "bad", t |-> 0]

\* datetime.isoformat(timespec="seconds"): the sub-second part is dropped
IsoSeconds(t) == TS(t - (t % TicksPerSecond))

AppRule(action, direction, temporary_until) ==
    [action |-> action, direction |-> direction, temporary_until |-> temporary_until]

\* an effect of a call, in the order the call makes them
Saved == [e |-> "save", arg |-> "", detail |-> ""]
Logged(event_type) == [e |-> "log", arg |-> event_type, detail |-> ""]
LoggedWith(event_type, detail) == [e |-> "log", arg |-> event_type, detail |-> detail]
Synced(profile_name) == [e |-> "sync", arg |-> profile_name, detail |-> ""]

NoExplanation ==
    [exe_path |-> "", profile |-> "", profile_display_name |-> "", action |-> "",
     direction |-> "", temporary_until |-> NoTS,
     reason |-> [form |-> "", display_name |-> "", action |-> "", direction |-> "",
                 until |-> NoTS]]

NoCall == [op |-> "", profile |-> "", exe_path |-> "", action |-> "", minutes |-> 0,
           adapter |-> "", selected |-> << >>, event_type |-> "", sink |-> "",
           limit |-> 0, discovered |-> {}]
NoRet == [status |-> "", profile |-> "", explanation |-> NoExplanation,
          events |-> << >>, changes |-> {}]

\* nothing enforced yet: no profile synchronized, no native rule
NoNative == [profile |-> "", rules |-> << >>]

----------------------------------------------------------------------------
(* The store: config.load_config / config.save_config *)

load_config(d) == d
save_config(c) == c

----------------------------------------------------------------------------
(* profiles.get_active_profile *)

get_active_profile_LastNotFirst(c) ==
    IF c.active_profile \in DOMAIN c.profiles
    THEN [status |-> "ok", cfg |-> c, saved |-> FALSE]
    ELSE IF "normal" \in DOMAIN c.profiles
    THEN [status |-> "ok", cfg |-> [c EXCEPT !.active_profile = "normal"], saved |-> TRUE]
    ELSE IF c.profile_order # <<>>
    THEN [status |-> "ok",
          cfg |-> [c EXCEPT !.active_profile = c.profile_order[Len(c.profile_order)]],
          saved |-> TRUE]
    ELSE [status |-> "NoProfilesAvailable", cfg |-> c, saved |-> FALSE]

\* the configuration after the call (cfg), whether it was saved, and the error
\* raised if any; the profile returned is cfg.profiles[cfg.active_profile]
get_active_profile(c) ==
    IF c.active_profile \in DOMAIN c.profiles
    THEN [status |-> "ok", cfg |-> c, saved |-> FALSE]
    ELSE IF "normal" \in DOMAIN c.profiles
    THEN [status |-> "ok", cfg |-> [c EXCEPT !.active_profile = "normal"], saved |-> TRUE]
    ELSE IF c.profile_order # <<>>
    THEN [status |-> "ok",
          cfg |-> [c EXCEPT !.active_profile = c.profile_order[1]],
          saved |-> TRUE]
    ELSE [status |-> "NoProfilesAvailable", cfg |-> c, saved |-> FALSE]

----------------------------------------------------------------------------
(* profiles.set_active_profile *)

set_active_profile_Unchecked(c, d, profile_name) ==
    LET c2 == [c EXCEPT !.active_profile = profile_name]
    IN [mem |-> c2, disk |-> save_config(c2), status |-> "ok",
        trace |-> <<Saved, Logged("ACTIVE_PROFILE_CHANGED")>>]

set_active_profile_LogsFirst(c, d, profile_name) ==
    IF profile_name \notin DOMAIN c.profiles
    THEN [mem |-> c, disk |-> d, status |-> "UnknownProfile", trace |-> <<>>]
    ELSE LET c2 == [c EXCEPT !.active_profile = profile_name]
         IN [mem |-> c2, disk |-> save_config(c2), status |-> "ok",
             trace |-> <<Logged("ACTIVE_PROFILE_CHANGED"), Saved>>]

set_active_profile(c, d, profile_name) ==
    IF profile_name \notin DOMAIN c.profiles
    THEN [mem |-> c, disk |-> d, status |-> "UnknownProfile", trace |-> <<>>]
    ELSE LET c2 == [c EXCEPT !.active_profile = profile_name]
         IN [mem |-> c2, disk |-> save_config(c2), status |-> "ok",
             trace |-> <<Saved, Logged("ACTIVE_PROFILE_CHANGED")>>]

----------------------------------------------------------------------------
(* profiles.apply_profile; adapter is the outcome of the firewall adapter *)

apply_profile_SavesBeforeCheck(d, profile_name, adapter) ==
    LET c == load_config(d)
        c2 == [c EXCEPT !.active_profile = profile_name]
    IN IF profile_name \notin DOMAIN c.profiles
       THEN [disk |-> save_config(c2), status |-> "UnknownProfile", trace |-> <<Saved>>]
       ELSE [disk |-> save_config(c2),
             status |-> IF adapter = "ok" THEN "ok" ELSE "AdapterError",
             trace |-> <<Saved, Logged("PROFILE_APPLIED"), Synced(profile_name)>>]

apply_profile_RollsBack(d, profile_name, adapter) ==
    LET c == load_config(d)
        c2 == [c EXCEPT !.active_profile = profile_name]
    IN IF profile_name \notin DOMAIN c.profiles
       THEN [disk |-> d, status |-> "UnknownProfile", trace |-> <<>>]
       ELSE IF adapter = "ok"
       THEN [disk |-> save_config(c2), status |-> "ok",
             trace |-> <<Saved, Logged("PROFILE_APPLIED"), Synced(profile_name)>>]
       ELSE [disk |-> save_config(c), status |-> "AdapterError",
             trace |-> <<Saved, Logged("PROFILE_APPLIED"), Synced(profile_name), Saved>>]

apply_profile_SyncFirst(d, profile_name, adapter) ==
    LET c == load_config(d)
        c2 == [c EXCEPT !.active_profile = profile_name]
    IN IF profile_name \notin DOMAIN c.profiles
       THEN [disk |-> d, status |-> "UnknownProfile", trace |-> <<>>]
       ELSE [disk |-> save_config(c2),
             status |-> IF adapter = "ok" THEN "ok" ELSE "AdapterError",
             trace |-> <<Synced(profile_name), Saved, Logged("PROFILE_APPLIED")>>]

apply_profile_SyncsPrevious(d, profile_name, adapter) ==
    LET c == load_config(d)
        c2 == [c EXCEPT !.active_profile = profile_name]
    IN IF profile_name \notin DOMAIN c.profiles
       THEN [disk |-> d, status |-> "UnknownProfile", trace |-> <<>>]
       ELSE [disk |-> save_config(c2),
             status |-> IF adapter = "ok" THEN "ok" ELSE "AdapterError",
             trace |-> <<Saved, Logged("PROFILE_APPLIED"), Synced(c.active_profile)>>]

apply_profile(d, profile_name, adapter) ==
    LET c == load_config(d)
        c2 == [c EXCEPT !.active_profile = profile_name]
    IN IF profile_name \notin DOMAIN c.profiles
       THEN [disk |-> d, status |-> "UnknownProfile", trace |-> <<>>]
       ELSE [disk |-> save_config(c2),
             status |-> IF adapter = "ok" THEN "ok" ELSE "AdapterError",
             trace |-> <<Saved, Logged("PROFILE_APPLIED"), Synced(profile_name)>>]

----------------------------------------------------------------------------
(* profiles.set_app_action_in_profile *)

set_app_action_in_profile_KeepsTemporary(c, profile_name, exe_path, action) ==
    IF profile_name \notin DOMAIN c.profiles
    THEN [mem |-> c, status |-> "UnknownProfile", trace |-> <<>>]
    ELSE LET exe_path_resolved == Resolve(exe_path)
             rules == c.profiles[profile_name].app_rules
             rule == IF exe_path_resolved \notin DOMAIN rules
                     THEN AppRule(action, "out", NoTS)
                     ELSE [rules[exe_path_resolved] EXCEPT !.action = action]
             change_type == IF exe_path_resolved \notin DOMAIN rules
                            THEN "created" ELSE "updated"
         IN [mem |-> [c EXCEPT !.profiles[profile_name].app_rules =
                                   (exe_path_resolved :> rule) @@ rules],
             status |-> "ok",
             trace |-> <<LoggedWith("PROFILE_APP_RULE_CHANGED", change_type)>>]

set_app_action_in_profile_ResetsDirection(c, profile_name, exe_path, action) ==
    IF profile_name \notin DOMAIN c.profiles
    THEN [mem |-> c, status |-> "UnknownProfile", trace |-> <<>>]
    ELSE LET exe_path_resolved == Resolve(exe_path)
             rules == c.profiles[profile_name].app_rules
             rule == AppRule(action, "out", NoTS)
             change_type == IF exe_path_resolved \notin DOMAIN rules
                            THEN "created" ELSE "updated"
         IN [mem |-> [c EXCEPT !.profiles[profile_name].app_rules =
                                   (exe_path_resolved :> rule) @@ rules],
             status |-> "ok",
             trace |-> <<LoggedWith("PROFILE_APP_RULE_CHANGED", change_type)>>]

set_app_action_in_profile(c, profile_name, exe_path, action) ==
    IF profile_name \notin DOMAIN c.profiles
    THEN [mem |-> c, status |-> "UnknownProfile", trace |-> <<>>]
    ELSE LET exe_path_resolved == Resolve(exe_path)
             rules == c.profiles[profile_name].app_rules
             rule == IF exe_path_resolved \notin DOMAIN rules
                     THEN AppRule(action, "out", NoTS)
                     ELSE [rules[exe_path_resolved] EXCEPT
                              !.action = action, !.temporary_until = NoTS]
             change_type == IF exe_path_resolved \notin DOMAIN rules
                            THEN "created" ELSE "updated"
         IN [mem |-> [c EXCEPT !.profiles[profile_name].app_rules =
                                   (exe_path_resolved :> rule) @@ rules],
             status |-> "ok",
             trace |-> <<LoggedWith("PROFILE_APP_RULE_CHANGED", change_type)>>]

----------------------------------------------------------------------------
(* profiles.set_temporary_allow_in_active_profile; t is utcnow() *)

set_temporary_allow_in_active_profile_AnyRule(d, exe_path, minutes, t, adapter) ==
    LET c == load_config(d)
        g == get_active_profile(c)
    IN IF g.status # "ok"
       THEN [disk |-> d, status |-> g.status, profile |-> "", trace |-> <<>>]
       ELSE
       LET c1 == g.cfg
           d1 == IF g.saved THEN save_config(c1) ELSE d
           tr1 == IF g.saved THEN <<Saved>> ELSE <<>>
           name == c1.active_profile
           rules == c1.profiles[name].app_rules
           exe_path_resolved == Resolve(exe_path)
       IN IF exe_path_resolved \notin DOMAIN rules
          THEN [disk |-> d1, status |-> "NotCurrentlyBlocked", profile |-> name,
                trace |-> tr1]
          ELSE
          LET until_str == IsoSeconds(t + minutes * MinuteTicks)
              c2 == [c1 EXCEPT !.profiles[name].app_rules[exe_path_resolved]
                                    .temporary_until = until_str]
          IN [disk |-> save_config(c2),
              status |-> IF adapter = "ok" THEN "ok" ELSE "AdapterError",
              profile |-> name,
              trace |-> tr1 \o <<Saved, LoggedWith("APP_TEMP_ALLOW_SET", exe_path_resolved),
                                 Synced(name)>>]

set_temporary_allow_in_active_profile_SyncFirst(d, exe_path, minutes, t, adapter) ==
    LET c == load_config(d)
        g == get_active_profile(c)
    IN IF g.status # "ok"
       THEN [disk |-> d, status |-> g.status, profile |-> "", trace |-> <<>>]
       ELSE
       LET c1 == g.cfg
           d1 == IF g.saved THEN save_config(c1) ELSE d
           tr1 == IF g.saved THEN <<Saved>> ELSE <<>>
           name == c1.active_profile
           rules == c1.profiles[name].app_rules
           exe_path_resolved == Resolve(exe_path)
       IN IF exe_path_resolved \notin DOMAIN rules
             \/ rules[exe_path_resolved].action # "block"
          THEN [disk |-> d1, status |-> "NotCurrentlyBlocked", profile |-> name,
                trace |-> tr1]
          ELSE
          LET until_str == IsoSeconds(t + minutes * MinuteTicks)
              c2 == [c1 EXCEPT !.profiles[name].app_rules[exe_path_resolved]
                                    .temporary_until = until_str]
          IN [disk |-> save_config(c2),
              status |-> IF adapter = "ok" THEN "ok" ELSE "AdapterError",
              profile |-> name,
              trace |-> tr1 \o <<Synced(name), Saved,
                                 LoggedWith("APP_TEMP_ALLOW_SET", exe_path_resolved)>>]

set_temporary_allow_in_active_profile_EveryProfile(d, exe_path, minutes, t, adapter) ==
    LET c == load_config(d)
        g == get_active_profile(c)
    IN IF g.status # "ok"
       THEN [disk |-> d, status |-> g.status, profile |-> "", trace |-> <<>>]
       ELSE
       LET c1 == g.cfg
           d1 == IF g.saved THEN save_config(c1) ELSE d
           tr1 == IF g.saved THEN <<Saved>> ELSE <<>>
           name == c1.active_profile
           rules == c1.profiles[name].app_rules
           exe_path_resolved == Resolve(exe_path)
       IN IF exe_path_resolved \notin DOMAIN rules
             \/ rules[exe_path_resolved].action # "block"
          THEN [disk |-> d1, status |-> "NotCurrentlyBlocked", profile |-> name,
                trace |-> tr1]
          ELSE
          LET until_str == IsoSeconds(t + minutes * MinuteTicks)
              c2 == [c1 EXCEPT !.profiles =
                        [n \in DOMAIN c1.profiles |->
                            IF exe_path_resolved \in DOMAIN c1.profiles[n].app_rules
                            THEN [c1.profiles[n] EXCEPT
                                     !.app_rules[exe_path_resolved].temporary_until
                                         = until_str]
                            ELSE c1.profiles[n]]]
          IN [disk |-> save_config(c2),
              status |-> IF adapter = "ok" THEN "ok" ELSE "AdapterError",
              profile |-> name,
              trace |-> tr1 \o <<Saved, LoggedWith("APP_TEMP_ALLOW_SET", exe_path_resolved),
                                 Synced(name)>>]

set_temporary_allow_in_active_profile(d, exe_path, minutes, t, adapter) ==
    LET c == load_config(d)
        g == get_active_profile(c)
    IN IF g.status # "ok"
       THEN [disk |-> d, status |-> g.status, profile |-> "", trace |-> <<>>]
       ELSE
       LET c1 == g.cfg
           d1 == IF g.saved THEN save_config(c1) ELSE d
           tr1 == IF g.saved THEN <<Saved>> ELSE <<>>
           name == c1.active_profile
           rules == c1.profiles[name].app_rules
           exe_path_resolved == Resolve(exe_path)
       IN IF exe_path_resolved \notin DOMAIN rules
             \/ rules[exe_path_resolved].action # "block"
          THEN [disk |-> d1, status |-> "NotCurrentlyBlocked", profile |-> name,
                trace |-> tr1]
          ELSE
          LET until_str == IsoSeconds(t + minutes * MinuteTicks)
              c2 == [c1 EXCEPT !.profiles[name].app_rules[exe_path_resolved]
                                    .temporary_until = until_str]
          IN [disk |-> save_config(c2),
              status |-> IF adapter = "ok" THEN "ok" ELSE "AdapterError",
              profile |-> name,
              trace |-> tr1 \o <<Saved, LoggedWith("APP_TEMP_ALLOW_SET", exe_path_resolved),
                                 Synced(name)>>]

----------------------------------------------------------------------------
(* profiles.explain_app_in_active_profile *)

\* lines 205-213: a BLOCK rule whose temporary_until parses and is still ahead
temp_active_UntilInclusive(explicit_rule, t) ==
    /\ explicit_rule.temporary_until.kind # "none"
    /\ explicit_rule.action = "block"
    /\ explicit_rule.temporary_until.kind = "ts"
    /\ t <= explicit_rule.temporary_until.t

temp_active(explicit_rule, t) ==
    /\ explicit_rule.temporary_until.kind # "none"
    /\ explicit_rule.action = "block"
    /\ explicit_rule.temporary_until.kind = "ts"   \* else fromisoformat raises ValueError
    /\ t < explicit_rule.temporary_until.t

\* no explicit rule: fall back to default_action
default_explanation_Allow(profile, exe_path_resolved) ==
    [exe_path |-> exe_path_resolved,
     profile |-> profile.name,
     profile_display_name |-> profile.display_name,
     action |-> "allow",
     direction |-> "out",
     temporary_until |-> NoTS,
     reason |-> [form |-> "default", display_name |-> profile.display_name,
                 action |-> profile.default_action, direction |-> "", until |-> NoTS]]

default_explanation(profile, exe_path_resolved) ==
    [exe_path |-> exe_path_resolved,
     profile |-> profile.name,
     profile_display_name |-> profile.display_name,
     action |-> profile.default_action,
     direction |-> "out",
     temporary_until |-> NoTS,
     reason |-> [form |-> "default", display_name |-> profile.display_name,
                 action |-> profile.default_action, direction |-> "", until |-> NoTS]]

explanation_of_ReasonNamesStored(profile, exe_path_resolved, t) ==
    IF exe_path_resolved \in DOMAIN profile.app_rules
    THEN LET explicit_rule == profile.app_rules[exe_path_resolved]
             active == temp_active(explicit_rule, t)
         IN [exe_path |-> exe_path_resolved,
             profile |-> profile.name,
             profile_display_name |-> profile.display_name,
             action |-> IF active THEN "allow" ELSE explicit_rule.action,
             direction |-> explicit_rule.direction,
             temporary_until |-> explicit_rule.temporary_until,
             reason |-> [form |-> "explicit", display_name |-> profile.display_name,
                         action |-> explicit_rule.action,
                         direction |-> explicit_rule.direction, until |-> NoTS]]
    ELSE default_explanation(profile, exe_path_resolved)

\* the explanation dict built from the profile's rule for the resolved path
explanation_of(profile, exe_path_resolved, t) ==
    IF exe_path_resolved \in DOMAIN profile.app_rules
    THEN LET explicit_rule == profile.app_rules[exe_path_resolved]
             active == temp_active(explicit_rule, t)
         IN [exe_path |-> exe_path_resolved,
             profile |-> profile.name,
             profile_display_name |-> profile.display_name,
             action |-> IF active THEN "allow" ELSE explicit_rule.action,
             direction |-> explicit_rule.direction,
             temporary_until |-> explicit_rule.temporary_until,
             reason |-> IF active
                        THEN [form |-> "temporary", display_name |-> profile.display_name,
                              action |-> "allow", direction |-> "",
                              until |-> explicit_rule.temporary_until]
                        ELSE [form |-> "explicit", display_name |-> profile.display_name,
                              action |-> explicit_rule.action,
                              direction |-> explicit_rule.direction, until |-> NoTS]]
    ELSE default_explanation(profile, exe_path_resolved)

explain_app_in_active_profile_NoRepair(d, exe_path, t) ==
    LET c == load_config(d)
        g == get_active_profile(c)
    IN IF g.status # "ok"
       THEN [disk |-> d, status |-> g.status, explanation |-> NoExplanation,
             trace |-> <<>>]
       ELSE LET profile == g.cfg.profiles[g.cfg.active_profile]
            IN [disk |-> d,
                status |-> "ok",
                explanation |-> explanation_of(profile, Resolve(exe_path), t),
                trace |-> <<Logged("APP_STATUS_EXPLAINED")>>]

explain_app_in_active_profile_Unresolved(d, exe_path, t) ==
    LET c == load_config(d)
        g == get_active_profile(c)
    IN IF g.status # "ok"
       THEN [disk |-> d, status |-> g.status, explanation |-> NoExplanation,
             trace |-> <<>>]
       ELSE LET profile == g.cfg.profiles[g.cfg.active_profile]
            IN [disk |-> IF g.saved THEN save_config(g.cfg) ELSE d,
                status |-> "ok",
                explanation |-> explanation_of(profile, exe_path, t),
                trace |-> (IF g.saved THEN <<Saved>> ELSE <<>>)
                          \o <<Logged("APP_STATUS_EXPLAINED")>>]

explain_app_in_active_profile(d, exe_path, t) ==
    LET c == load_config(d)
        g == get_active_profile(c)
    IN IF g.status # "ok"
       THEN [disk |-> d, status |-> g.status, explanation |-> NoExplanation,
             trace |-> <<>>]
       ELSE LET profile == g.cfg.profiles[g.cfg.active_profile]
            IN [disk |-> IF g.saved THEN save_config(g.cfg) ELSE d,
                status |-> "ok",
                explanation |-> explanation_of(profile, Resolve(exe_path), t),
                trace |-> (IF g.saved THEN <<Saved>> ELSE <<>>)
                          \o <<Logged("APP_STATUS_EXPLAINED")>>]

----------------------------------------------------------------------------
(* discovery.merge_discovered_apps_into_config; discovered is the set of     *)
(* resolved paths discover_active_apps() found, each seen at t              *)

ProcessName(exe_path) == IF exe_path = PathCurl THEN "curl" ELSE "x"

AppInfo(name, tags, last_seen, pinned) ==
    [name |-> name, tags |-> tags, last_seen |-> last_seen, pinned |-> pinned]

merge_discovered_apps_into_config_OverwritesName(c, discovered, t) ==
    [c EXCEPT !.apps =
        [a \in DOMAIN c.apps \cup discovered |->
            IF a \notin discovered THEN c.apps[a]
            ELSE IF a \notin DOMAIN c.apps
            THEN AppInfo(ProcessName(a), {}, IsoSeconds(t), FALSE)
            ELSE [c.apps[a] EXCEPT !.last_seen = IsoSeconds(t),
                                   !.name = ProcessName(a)]]]

merge_discovered_apps_into_config(c, discovered, t) ==
    [c EXCEPT !.apps =
        [a \in DOMAIN c.apps \cup discovered |->
            IF a \notin discovered THEN c.apps[a]
            ELSE IF a \notin DOMAIN c.apps
            THEN AppInfo(ProcessName(a), {}, IsoSeconds(t), FALSE)
            ELSE [c.apps[a] EXCEPT
                     !.last_seen = IsoSeconds(t),
                     !.name = IF c.apps[a].name = "" THEN ProcessName(a)
                              ELSE c.apps[a].name]]]

----------------------------------------------------------------------------
(* ui.main_window.MainWindow: self.cfg is c, self.current_profile_name cur  *)

\* the part of refresh_apps_table that can change state: the fallback to
\* get_active_profile(self.cfg) when the current profile is not in self.cfg
refresh_apps_table(c, cur, d) ==
    IF cur \in DOMAIN c.profiles
    THEN [mem |-> c, disk |-> d, status |-> "ok", trace |-> <<>>]
    ELSE LET g == get_active_profile(c)
         IN [mem |-> g.cfg,
             disk |-> IF g.saved THEN save_config(g.cfg) ELSE d,
             status |-> g.status,
             trace |-> IF g.saved THEN <<Saved>> ELSE <<>>]

\* str.upper() of an action
Upper(action) == IF action = "allow" THEN "ALLOW" ELSE "BLOCK"

status_display_BadIsTemp(profile, exe_path, t) ==
    IF exe_path \in DOMAIN profile.app_rules
    THEN LET rule == profile.app_rules[exe_path]
         IN IF /\ rule.temporary_until.kind # "none"
               /\ rule.action = "block"
               /\ (rule.temporary_until.kind = "ts" => t < rule.temporary_until.t)
            THEN "ALLOW (TEMP)"
            ELSE Upper(rule.action)
    ELSE Upper(profile.default_action)

status_display_IgnoresTemporary(profile, exe_path, t) ==
    IF exe_path \in DOMAIN profile.app_rules
    THEN Upper(profile.app_rules[exe_path].action)
    ELSE Upper(profile.default_action)

\* the status column refresh_apps_table shows for a registered app, at time t
status_display(profile, exe_path, t) ==
    IF exe_path \in DOMAIN profile.app_rules
    THEN LET rule == profile.app_rules[exe_path]
             table_temp_active ==
                 /\ rule.temporary_until.kind # "none"
                 /\ rule.action = "block"
                 /\ rule.temporary_until.kind = "ts"   \* else ValueError, passed over
                 /\ t < rule.temporary_until.t
         IN IF table_temp_active THEN "ALLOW (TEMP)" ELSE Upper(rule.action)
    ELSE Upper(profile.default_action)

on_profile_selected(c, cur, d, profile_name, adapter) ==
    LET r == apply_profile(d, profile_name, adapter)
    IN IF r.status = "ok"
       THEN LET c2 == load_config(r.disk)
                cur2 == c2.active_profile
                tbl == refresh_apps_table(c2, cur2, r.disk)
            IN [mem |-> tbl.mem, cur |-> cur2, disk |-> tbl.disk,
                status |-> tbl.status,
                trace |-> r.trace \o tbl.trace \o
                          (IF tbl.status = "ok" THEN <<Logged("PROFILE_APPLIED")>>
                           ELSE <<Logged("ERROR")>>)]
       ELSE [mem |-> c, cur |-> cur, disk |-> r.disk, status |-> r.status,
             trace |-> r.trace \o <<Logged("ERROR")>>]

refresh_apps(c, cur, d, discovered, t) ==
    LET c2 == merge_discovered_apps_into_config(c, discovered, t)
        d2 == save_config(c2)
        tbl == refresh_apps_table(c2, cur, d2)
    IN [mem |-> tbl.mem, disk |-> tbl.disk, status |-> tbl.status,
        trace |-> <<Saved>> \o tbl.trace \o
                  (IF tbl.status = "ok" THEN <<Logged("APPS_REFRESHED")>> ELSE <<>>)]

\* the loop of _change_selected_apps_action over the selected rows
RECURSIVE set_selected(_, _, _, _)
set_selected(c, profile_name, selected, action) ==
    IF selected = <<>>
    THEN [mem |-> c, trace |-> <<>>]
    ELSE LET one == set_app_action_in_profile(c, profile_name, Head(selected), action)
             rest == set_selected(one.mem, profile_name, Tail(selected), action)
         IN [mem |-> rest.mem, trace |-> one.trace \o rest.trace]

change_selected_apps_action_NoSave(c, cur, d, selected, action, adapter) ==
    IF cur \notin DOMAIN c.profiles \/ selected = <<>>
    THEN [mem |-> c, disk |-> d, status |-> "ok", trace |-> <<>>]
    ELSE LET set == set_selected(c, cur, selected, action)
             r == apply_profile(d, cur, adapter)
             tbl == refresh_apps_table(set.mem, cur, r.disk)
         IN [mem |-> tbl.mem, disk |-> tbl.disk, status |-> r.status,
             trace |-> set.trace \o r.trace
                       \o (IF r.status = "ok" THEN <<>> ELSE <<Logged("ERROR")>>)
                       \o tbl.trace \o <<Logged("APP_RULE_CHANGED")>>]

change_selected_apps_action(c, cur, d, selected, action, adapter) ==
    IF cur \notin DOMAIN c.profiles \/ selected = <<>>
    THEN [mem |-> c, disk |-> d, status |-> "ok", trace |-> <<>>]
    ELSE LET set == set_selected(c, cur, selected, action)
             d2 == save_config(set.mem)
             r == apply_profile(d2, cur, adapter)
             tbl == refresh_apps_table(set.mem, cur, r.disk)
         IN [mem |-> tbl.mem, disk |-> tbl.disk, status |-> r.status,
             trace |-> set.trace \o <<Saved>> \o r.trace
                       \o (IF r.status = "ok" THEN <<>> ELSE <<Logged("ERROR")>>)
                       \o tbl.trace \o <<Logged("APP_RULE_CHANGED")>>]

\* after the user confirmed the dialog
temp_allow_selected_app(c, cur, d, exe_path, t, adapter) ==
    LET r == set_temporary_allow_in_active_profile(d, exe_path, DefaultMinutes, t, adapter)
    IN IF r.status # "ok"
       THEN [mem |-> c, disk |-> r.disk, status |-> r.status, trace |-> r.trace]
       ELSE LET c2 == load_config(r.disk)
                tbl == refresh_apps_table(c2, cur, r.disk)
            IN [mem |-> tbl.mem, disk |-> tbl.disk, status |-> tbl.status,
                trace |-> r.trace \o tbl.trace]

----------------------------------------------------------------------------
(* Stored documents a session can start from *)

ProfileNames == {"normal", "focus", "public_wifi"}

DisplayName(name) ==
    IF name = "normal" THEN "Normal"
    ELSE IF name = "focus" THEN "Focus" ELSE "Public Wi-Fi"

DefaultAction(name) == IF name = "normal" THEN "allow" ELSE "block"

NoRules == << >>

\* rule maps found in a stored profile; the last two carry a temporary_until
\* written by an earlier session and one that does not parse
InitRuleMaps ==
    { NoRules,
      (PathX :> AppRule("block", "both", NoTS)),
      (PathX :> AppRule("allow", "in", NoTS)) @@ (PathCurl :> AppRule("block", "out", NoTS)),
      (PathX :> AppRule("block", "out", TS(PeriodTicks))),
      (PathX :> AppRule("block", "in", BadTS)) }

OtherRuleMaps ==
    { (PathX :> AppRule("block", "out", NoTS)) @@ (PathCurl :> AppRule("allow", "both", NoTS)) }

ProfileConfig(name, rules) ==
    [name |-> name, display_name |-> DisplayName(name),
     default_action |-> DefaultAction(name), app_rules |-> rules]

InitApps == (PathX :> AppInfo("browser", {"work"}, NoTS, TRUE))

ProfileOrders == { <<"normal", "focus">>, <<"public_wifi", "focus">> }

Range(seq) == {seq[i] : i \in 1..Len(seq)}

FullConfig(order, active, first_rules, other_rules) ==
    [active_profile |-> active,
     profile_order |-> order,
     profiles |-> [n \in Range(order) |->
                     ProfileConfig(n, IF n = order[1] THEN first_rules ELSE other_rules)],
     apps |-> InitApps]

\* documents whose active_profile names one of their profiles
ValidDocs ==
    { FullConfig(order, active, r1, r2) :
        order \in ProfileOrders, active \in ProfileNames,
        r1 \in InitRuleMaps, r2 \in OtherRuleMaps }

TypeOK ==
    /\ now \in 0..MaxTime
    /\ cfg.active_profile \in STRING
    /\ current_profile_name \in STRING

----------------------------------------------------------------------------
(* A session using the profile manager directly *)

Init ==
    /\ disk \in {d \in ValidDocs : d.active_profile = d.profile_order[1]}
    /\ cfg = load_config(disk)
    /\ current_profile_name = cfg.active_profile
    /\ now = 0
    /\ call = NoCall
    /\ ret = NoRet
    /\ trace = <<>>
    /\ calls = 0
    /\ native = NoNative
    /\ log_file = <<>>

\* one more call of the session
Called ==
    /\ calls < MaxCalls
    /\ calls' = calls + 1

GetActiveProfile ==
    LET g == get_active_profile(cfg)
    IN /\ Called
       /\ cfg' = g.cfg
       /\ disk' = IF g.saved THEN save_config(g.cfg) ELSE disk
       /\ call' = [NoCall EXCEPT !.op = "get_active_profile"]
       /\ ret' = [NoRet EXCEPT !.status = g.status,
                               !.profile = IF g.status = "ok" THEN g.cfg.active_profile
                                           ELSE ""]
       /\ trace' = IF g.saved THEN <<Saved>> ELSE <<>>
       /\ UNCHANGED <<native, log_file, current_profile_name, now>>

SetActiveProfile(profile_name) ==
    LET r == set_active_profile(cfg, disk, profile_name)
    IN /\ Called
       /\ cfg' = r.mem
       /\ disk' = r.disk
       /\ call' = [NoCall EXCEPT !.op = "set_active_profile", !.profile = profile_name]
       /\ ret' = [NoRet EXCEPT !.status = r.status]
       /\ trace' = r.trace
       /\ UNCHANGED <<native, log_file, current_profile_name, now>>

ApplyProfile(profile_name, adapter) ==
    LET r == apply_profile(disk, profile_name, adapter)
    IN /\ Called
       /\ disk' = r.disk
       /\ call' = [NoCall EXCEPT !.op = "apply_profile", !.profile = profile_name,
                                 !.adapter = adapter]
       /\ ret' = [NoRet EXCEPT !.status = r.status]
       /\ trace' = r.trace
       /\ UNCHANGED <<native, log_file, cfg, current_profile_name, now>>

SetAppAction_Persists(profile_name, exe_path, action) ==
    LET r == set_app_action_in_profile(cfg, profile_name, exe_path, action)
    IN /\ Called
       /\ cfg' = r.mem
       /\ disk' = IF r.status = "ok" THEN save_config(r.mem) ELSE disk
       /\ call' = [NoCall EXCEPT !.op = "set_app_action_in_profile",
                                 !.profile = profile_name, !.exe_path = exe_path,
                                 !.action = action]
       /\ ret' = [NoRet EXCEPT !.status = r.status]
       /\ trace' = r.trace
       /\ UNCHANGED <<native, log_file, current_profile_name, now>>

SetAppAction(profile_name, exe_path, action) ==
    LET r == set_app_action_in_profile(cfg, profile_name, exe_path, action)
    IN /\ Called
       /\ cfg' = r.mem
       /\ call' = [NoCall EXCEPT !.op = "set_app_action_in_profile",
                                 !.profile = profile_name, !.exe_path = exe_path,
                                 !.action = action]
       /\ ret' = [NoRet EXCEPT !.status = r.status]
       /\ trace' = r.trace
       /\ UNCHANGED <<native, log_file, disk, current_profile_name, now>>

SetTemporaryAllow(exe_path, minutes, adapter) ==
    LET r == set_temporary_allow_in_active_profile(disk, exe_path, minutes, now, adapter)
    IN /\ Called
       /\ disk' = r.disk
       /\ call' = [NoCall EXCEPT !.op = "set_temporary_allow_in_active_profile",
                                 !.exe_path = exe_path, !.minutes = minutes,
                                 !.adapter = adapter]
       /\ ret' = [NoRet EXCEPT !.status = r.status, !.profile = r.profile]
       /\ trace' = r.trace
       /\ UNCHANGED <<native, log_file, cfg, current_profile_name, now>>

Explain(exe_path) ==
    LET r == explain_app_in_active_profile(disk, exe_path, now)
    IN /\ Called
       /\ disk' = r.disk
       /\ call' = [NoCall EXCEPT !.op = "explain_app_in_active_profile",
                                 !.exe_path = exe_path]
       /\ ret' = [NoRet EXCEPT !.status = r.status, !.explanation = r.explanation]
       /\ trace' = r.trace
       /\ UNCHANGED <<native, log_file, cfg, current_profile_name, now>>

\* the caller persists what it changed in memory
SaveConfig ==
    /\ Called
    /\ disk' = save_config(cfg)
    /\ call' = [NoCall EXCEPT !.op = "save_config"]
    /\ ret' = [NoRet EXCEPT !.status = "ok"]
    /\ trace' = <<Saved>>
    /\ UNCHANGED <<native, log_file, cfg, current_profile_name, now>>

LoadConfig ==
    /\ Called
    /\ cfg' = load_config(disk)
    /\ call' = [NoCall EXCEPT !.op = "load_config"]
    /\ ret' = [NoRet EXCEPT !.status = "ok"]
    /\ trace' = <<>>
    /\ UNCHANGED <<native, log_file, disk, current_profile_name, now>>

\* time passes: within the second, or by a grant period
Tick ==
    /\ \E step \in {1, PeriodTicks} :
          /\ now + step <= MaxTime
          /\ step = 1 => (now % PeriodTicks) + 1 < TicksPerSecond
          /\ now' = now + step
    /\ call' = [NoCall EXCEPT !.op = "tick"]
    /\ ret' = NoRet
    /\ trace' = <<>>
    /\ UNCHANGED <<native, log_file, disk, cfg, current_profile_name, calls>>

Adapter == {"ok", "fail"}
MinutesArgs == {DefaultMinutes}

Next ==
    \/ GetActiveProfile
    \/ \E n \in ProfileNames : SetActiveProfile(n)
    \/ \E n \in ProfileNames, ad \in Adapter : ApplyProfile(n, ad)
    \/ \E n \in ProfileNames, p \in RawPaths, a \in Actions : SetAppAction(n, p, a)
    \/ \E p \in RawPaths, m \in MinutesArgs, ad \in Adapter : SetTemporaryAllow(p, m, ad)
    \/ \E p \in RawPaths : Explain(p)
    \/ SaveConfig
    \/ LoadConfig
    \/ Tick

Spec == Init /\ [][Next]_vars

----------------------------------------------------------------------------
(* A session started on any stored document: the active_profile key may    *)
(* name no profile, and there may be no profiles at all                    *)

AnyOrders ==
    { << >>, <<"normal", "focus">>, <<"focus", "normal">>, <<"public_wifi", "focus">> }

AnyDocs ==
    { FullConfig(order, active, r1, r2) :
        order \in AnyOrders, active \in ProfileNames,
        r1 \in {(PathX :> AppRule("block", "in", TS(PeriodTicks)))},
        r2 \in OtherRuleMaps }

InitAny ==
    /\ disk \in AnyDocs
    /\ cfg = load_config(disk)
    /\ current_profile_name = cfg.active_profile
    /\ now = 0
    /\ call = NoCall
    /\ ret = NoRet
    /\ trace = <<>>
    /\ calls = 0
    /\ native = NoNative
    /\ log_file = <<>>

SpecAny == InitAny /\ [][Next]_vars

----------------------------------------------------------------------------
(* A session of the window: MainWindow's handlers *)

\* rows are sorted by (name, exe_path)
TableOrder == <<PathX, PathCurl>>

Picked(rows) == LET keep(a) == a \in rows IN SelectSeq(TableOrder, keep)

OnProfileSelected(profile_name, adapter) ==
    LET r == on_profile_selected(cfg, current_profile_name, disk, profile_name, adapter)
    IN /\ Called
       /\ profile_name \in DOMAIN cfg.profiles
       /\ cfg' = r.mem
       /\ current_profile_name' = r.cur
       /\ disk' = r.disk
       /\ call' = [NoCall EXCEPT !.op = "on_profile_selected", !.profile = profile_name,
                                 !.adapter = adapter]
       /\ ret' = [NoRet EXCEPT !.status = r.status]
       /\ trace' = r.trace
       /\ UNCHANGED <<native, log_file, now>>

RefreshApps(discovered) ==
    LET r == refresh_apps(cfg, current_profile_name, disk, discovered, now)
    IN /\ Called
       /\ cfg' = r.mem
       /\ disk' = r.disk
       /\ call' = [NoCall EXCEPT !.op = "refresh_apps"]
       /\ ret' = [NoRet EXCEPT !.status = r.status]
       /\ trace' = r.trace
       /\ UNCHANGED <<native, log_file, current_profile_name, now>>

ChangeSelectedAppsAction(op, rows, action, adapter) ==
    LET r == change_selected_apps_action(cfg, current_profile_name, disk, Picked(rows),
                                         action, adapter)
    IN /\ Called
       /\ rows \subseteq DOMAIN cfg.apps
       /\ cfg' = r.mem
       /\ disk' = r.disk
       /\ call' = [NoCall EXCEPT !.op = op, !.action = action, !.adapter = adapter,
                                 !.selected = Picked(rows)]
       /\ ret' = [NoRet EXCEPT !.status = r.status]
       /\ trace' = r.trace
       /\ UNCHANGED <<native, log_file, current_profile_name, now>>

AllowSelectedApps(rows, adapter) ==
    ChangeSelectedAppsAction("allow_selected_apps", rows, "allow", adapter)

BlockSelectedApps(rows, adapter) ==
    ChangeSelectedAppsAction("block_selected_apps", rows, "block", adapter)

ExplainSelectedApp(exe_path) ==
    LET r == explain_app_in_active_profile(disk, exe_path, now)
    IN /\ Called
       /\ exe_path \in DOMAIN cfg.apps
       /\ disk' = r.disk
       /\ call' = [NoCall EXCEPT !.op = "explain_selected_app", !.exe_path = exe_path]
       /\ ret' = [NoRet EXCEPT !.status = r.status, !.explanation = r.explanation]
       /\ trace' = r.trace
       /\ UNCHANGED <<native, log_file, cfg, current_profile_name, now>>

TempAllowSelectedApp(exe_path, adapter) ==
    LET r == temp_allow_selected_app(cfg, current_profile_name, disk, exe_path, now, adapter)
    IN /\ Called
       /\ exe_path \in DOMAIN cfg.apps
       /\ cfg' = r.mem
       /\ disk' = r.disk
       /\ call' = [NoCall EXCEPT !.op = "temp_allow_selected_app", !.exe_path = exe_path,
                                 !.minutes = DefaultMinutes, !.adapter = adapter]
       /\ ret' = [NoRet EXCEPT !.status = r.status]
       /\ trace' = r.trace
       /\ UNCHANGED <<native, log_file, current_profile_name, now>>

NextUI ==
    \/ \E n \in ProfileNames, ad \in Adapter : OnProfileSelected(n, ad)
    \/ \E found \in SUBSET Apps : RefreshApps(found)
    \/ \E rows \in SUBSET Apps, ad \in Adapter : AllowSelectedApps(rows, ad)
    \/ \E rows \in SUBSET Apps, ad \in Adapter : BlockSelectedApps(rows, ad)
    \/ \E p \in Apps : ExplainSelectedApp(p)
    \/ \E p \in Apps, ad \in Adapter : TempAllowSelectedApp(p, ad)
    \/ Tick

SpecUI == Init /\ [][NextUI]_vars

----------------------------------------------------------------------------
(* The activity log: activity_log.log_event / activity_log.get_recent_events *)

\* how many lines the log holds when the session starts
MaxInitLines == 2
\* the largest limit passed to get_recent_events
MaxLimit == 2
\* how many calls a session of the log makes
MaxLogCalls == 3

\* what the log directory and file do when log_event runs: both work; the
\* directory cannot be created; the file cannot be opened or written or the
\* entry cannot be serialized
Sinks == {"ok", "mkdir_fail", "write_fail"}

NoEntry == [timestamp |-> NoTS, event_type |-> ""]
Entry(event_type, t) == [timestamp |-> IsoSeconds(t), event_type |-> event_type]

\* a line of the file: the JSON text of an entry, text that is not JSON, or
\* white space only
json_dumps(entry) == [kind |-> "json", text |-> entry]
MalformedLine == [kind |-> "malformed", text |-> NoEntry]
BlankLine == [kind |-> "blank", text |-> NoEntry]

json_loads(line) ==
    IF line.kind = "json"
    THEN [ok |-> TRUE, evt |-> line.text]
    ELSE [ok |-> FALSE, evt |-> NoEntry]

\* log_event: the directory is created outside the try, the append is inside
log_event(lines, event_type, t, sink) ==
    IF sink = "mkdir_fail"
    THEN [lines |-> lines, raised |-> TRUE, printed |-> FALSE]
    ELSE IF sink = "write_fail"
    THEN [lines |-> lines, raised |-> FALSE, printed |-> TRUE]
    ELSE [lines |-> Append(lines, json_dumps(Entry(event_type, t))),
          raised |-> FALSE, printed |-> FALSE]

\* lines[-limit:]; -0 is 0, so a limit of 0 selects every line
last_lines(lines, limit) ==
    IF limit = 0 \/ limit >= Len(lines)
    THEN lines
    ELSE SubSeq(lines, Len(lines) - limit + 1, Len(lines))

RECURSIVE parse_lines(_)
parse_lines(lines) ==
    IF lines = <<>>
    THEN <<>>
    ELSE LET line == Head(lines)
             rest == parse_lines(Tail(lines))
         IN IF line.kind = "blank"
            THEN rest
            ELSE IF json_loads(line).ok
            THEN <<json_loads(line).evt>> \o rest
            ELSE rest

get_recent_events(lines, limit) == parse_lines(last_lines(lines, limit))

\* a profile-manager call whose effects are tr and whose result is status,
\* made while the log behaves as sink: log_event is its first "log" effect,
\* and an exception of log_event ends the call there
with_log_event(status, tr, lines, t, sink) ==
    IF \A i \in 1..Len(tr) : tr[i].e # "log"
    THEN [status |-> status, trace |-> tr, lines |-> lines]
    ELSE LET i == CHOOSE k \in 1..Len(tr) :
                     tr[k].e = "log" /\ \A j \in 1..(k - 1) : tr[j].e # "log"
             lg == log_event(lines, tr[i].arg, t, sink)
         IN IF lg.raised
            THEN [status |-> "OSError", trace |-> SubSeq(tr, 1, i - 1),
                  lines |-> lg.lines]
            ELSE [status |-> status,
                  trace |-> IF lg.printed
                            THEN SubSeq(tr, 1, i - 1) \o SubSeq(tr, i + 1, Len(tr))
                            ELSE tr,
                  lines |-> lg.lines]

LogDoc == FullConfig(<<"normal", "focus">>, "normal",
                     (PathX :> AppRule("block", "out", TS(PeriodTicks))),
                     CHOOSE m \in OtherRuleMaps : TRUE)

InitLines == {json_dumps(Entry("PROFILE_APPLIED", 0)), MalformedLine, BlankLine}
InitLogFiles == UNION {[1..n -> InitLines] : n \in 0..MaxInitLines}
LogEventTypes == {"APPS_REFRESHED"}

InitLog ==
    /\ disk = LogDoc
    /\ cfg = load_config(disk)
    /\ current_profile_name = cfg.active_profile
    /\ now = 0
    /\ call = NoCall
    /\ ret = NoRet
    /\ trace = <<>>
    /\ calls = 0
    /\ native = NoNative
    /\ log_file \in InitLogFiles

CalledLog ==
    /\ calls < MaxLogCalls
    /\ calls' = calls + 1

LogEvent(event_type, sink) ==
    LET lg == log_event(log_file, event_type, now, sink)
    IN /\ CalledLog
       /\ log_file' = lg.lines
       /\ call' = [NoCall EXCEPT !.op = "log_event", !.event_type = event_type,
                                 !.sink = sink]
       /\ ret' = [NoRet EXCEPT !.status = IF lg.raised THEN "OSError" ELSE "ok"]
       /\ trace' = IF lg.raised \/ lg.printed THEN <<>> ELSE <<Logged(event_type)>>
       /\ UNCHANGED <<native, disk, cfg, current_profile_name, now>>

GetRecentEvents(limit) ==
    /\ CalledLog
    /\ call' = [NoCall EXCEPT !.op = "get_recent_events", !.limit = limit]
    /\ ret' = [NoRet EXCEPT !.status = "ok",
                            !.events = get_recent_events(log_file, limit)]
    /\ trace' = <<>>
    /\ UNCHANGED <<native, disk, cfg, current_profile_name, now, log_file>>

ApplyProfileLogging(profile_name, adapter, sink) ==
    LET r == apply_profile(disk, profile_name, adapter)
        o == with_log_event(r.status, r.trace, log_file, now, sink)
    IN /\ CalledLog
       /\ disk' = r.disk
       /\ log_file' = o.lines
       /\ call' = [NoCall EXCEPT !.op = "apply_profile", !.profile = profile_name,
                                 !.adapter = adapter, !.sink = sink]
       /\ ret' = [NoRet EXCEPT !.status = o.status]
       /\ trace' = o.trace
       /\ UNCHANGED <<native, cfg, current_profile_name, now>>

ExplainLogging(exe_path, sink) ==
    LET r == explain_app_in_active_profile(disk, exe_path, now)
        o == with_log_event(r.status, r.trace, log_file, now, sink)
    IN /\ CalledLog
       /\ disk' = r.disk
       /\ log_file' = o.lines
       /\ call' = [NoCall EXCEPT !.op = "explain_app_in_active_profile",
                                 !.exe_path = exe_path, !.sink = sink]
       /\ ret' = [NoRet EXCEPT !.status = o.status,
                               !.explanation = IF o.status = "OSError"
                                               THEN NoExplanation
                                               ELSE r.explanation]
       /\ trace' = o.trace
       /\ UNCHANGED <<native, cfg, current_profile_name, now>>

NextLog ==
    \/ \E e \in LogEventTypes, s \in Sinks : LogEvent(e, s)
    \/ \E n \in 0..MaxLimit : GetRecentEvents(n)
    \/ \E n \in ProfileNames, ad \in Adapter, s \in Sinks : ApplyProfileLogging(n, ad, s)
    \/ \E p \in RawPaths, s \in Sinks : ExplainLogging(p, s)

SpecLog == InitLog /\ [][NextLog]_vars

----------------------------------------------------------------------------
(* A session that merges discovered apps into registries of every shape    *)

\* a registered app: named by the user or not named, tagged or not, seen
\* before or not, pinned or not
RegisteredApps ==
    {AppInfo(name, tags, last_seen, pinned) :
        name \in {"", "browser"}, tags \in {{}, {"work"}},
        last_seen \in {NoTS, TS(0)}, pinned \in BOOLEAN}

Registries == UNION {[known -> RegisteredApps] : known \in SUBSET Apps}

InitMerge ==
    /\ disk \in {[LogDoc EXCEPT !.apps = reg] : reg \in Registries}
    /\ cfg = load_config(disk)
    /\ current_profile_name = cfg.active_profile
    /\ now = 0
    /\ call = NoCall
    /\ ret = NoRet
    /\ trace = <<>>
    /\ calls = 0
    /\ native = NoNative
    /\ log_file = <<>>

MergeDiscoveredApps(discovered) ==
    /\ Called
    /\ cfg' = merge_discovered_apps_into_config(cfg, discovered, now)
    /\ call' = [NoCall EXCEPT !.op = "merge_discovered_apps_into_config",
                              !.discovered = discovered]
    /\ ret' = [NoRet EXCEPT !.status = "ok"]
    /\ trace' = <<>>
    /\ UNCHANGED <<native, disk, current_profile_name, now, log_file>>

NextMerge ==
    \/ \E discovered \in SUBSET Apps : MergeDiscoveredApps(discovered)
    \/ Tick

SpecMerge == InitMerge /\ [][NextMerge]_vars

----------------------------------------------------------------------------
(* Synchronization: firewall_win.sync_profile_to_windows_firewall, called  *)
(* by apply_profile and set_temporary_allow_in_active_profile               *)

\* the (effective action, direction) the policy evaluator gives, at t, to
\* every app the profile has a rule for or the registry knows
effective_triples(c, profile_name, t) ==
    LET profile == c.profiles[profile_name]
    IN [a \in DOMAIN profile.app_rules \cup DOMAIN c.apps |->
           [action |-> explanation_of(profile, a, t).action,
            direction |-> explanation_of(profile, a, t).direction]]

\* the adapter makes the native rules match the triples of the stored
\* profile; changes are the apps whose native rule it had to add, alter or
\* drop. A failing adapter changes nothing.
sync_profile_to_windows_firewall(d, profile_name, nat, t, adapter) ==
    LET c == load_config(d)
        desired == effective_triples(c, profile_name, t)
    IN IF adapter # "ok"
       THEN [native |-> nat, changes |-> {}]
       ELSE [native |-> [profile |-> profile_name, rules |-> desired],
             changes |-> {a \in DOMAIN desired \cup DOMAIN nat.rules :
                             \/ a \notin DOMAIN desired
                             \/ a \notin DOMAIN nat.rules
                             \/ desired[a] # nat.rules[a]}]

ApplyProfileSync(profile_name, adapter) ==
    LET r == apply_profile(disk, profile_name, adapter)
        synced == r.status # "UnknownProfile"
        sy == sync_profile_to_windows_firewall(r.disk, profile_name, native, now, adapter)
    IN /\ Called
       /\ disk' = r.disk
       /\ native' = IF synced THEN sy.native ELSE native
       /\ call' = [NoCall EXCEPT !.op = "apply_profile", !.profile = profile_name,
                                 !.adapter = adapter]
       /\ ret' = [NoRet EXCEPT !.status = r.status,
                               !.changes = IF synced THEN sy.changes ELSE {}]
       /\ trace' = r.trace
       /\ UNCHANGED <<cfg, current_profile_name, now, log_file>>

SetTemporaryAllowSync(exe_path, minutes, adapter) ==
    LET r == set_temporary_allow_in_active_profile(disk, exe_path, minutes, now, adapter)
        synced == r.status \in {"ok", "AdapterError"}
        sy == sync_profile_to_windows_firewall(r.disk, r.profile, native, now, adapter)
    IN /\ Called
       /\ disk' = r.disk
       /\ native' = IF synced THEN sy.native ELSE native
       /\ call' = [NoCall EXCEPT !.op = "set_temporary_allow_in_active_profile",
                                 !.exe_path = exe_path, !.minutes = minutes,
                                 !.adapter = adapter]
       /\ ret' = [NoRet EXCEPT !.status = r.status, !.profile = r.profile,
                               !.changes = IF synced THEN sy.changes ELSE {}]
       /\ trace' = r.trace
       /\ UNCHANGED <<cfg, current_profile_name, now, log_file>>

NextSync ==
    \/ \E n \in ProfileNames, ad \in Adapter : ApplyProfileSync(n, ad)
    \/ \E p \in Apps, m \in MinutesArgs, ad \in Adapter : SetTemporaryAllowSync(p, m, ad)
    \/ \E n \in ProfileNames, p \in Apps, a \in Actions : SetAppAction(n, p, a)
    \/ SaveConfig
    \/ Tick

SpecSync == Init /\ [][NextSync]_vars

----------------------------------------------------------------------------
(* Properties *)

\* the rules of the stored active profile, when the key names a profile
ActiveRules(d) == d.profiles[d.active_profile].app_rules

IsExplain(c) == c.op = "explain_app_in_active_profile"
IsTempAllow(c) == c.op = "set_temporary_allow_in_active_profile"

\* C1: for a block rule whose temporary_until is a parseable timestamp T,
\* explain reports allow (temporary allowance active) exactly when now < T and
\* block (allowance inactive) when now >= T, now = T included; the direction
\* reported is the rule's; neither the query nor the passage of time changes
\* the stored rule.
C1_TemporaryAllowUntilExpiry ==
    [][ /\ IsExplain(call') =>
             LET a == Resolve(call'.exe_path)
                 rules == ActiveRules(disk)
             IN (/\ a \in DOMAIN rules
                 /\ rules[a].action = "block"
                 /\ rules[a].temporary_until.kind = "ts")
                => /\ ret'.status = "ok"
                   /\ now < rules[a].temporary_until.t
                        => /\ ret'.explanation.action = "allow"
                           /\ ret'.explanation.reason.form = "temporary"
                   /\ now >= rules[a].temporary_until.t
                        => /\ ret'.explanation.action = "block"
                           /\ ret'.explanation.reason.form = "explicit"
                   /\ ret'.explanation.direction = rules[a].direction
                   /\ ActiveRules(disk')[a] = rules[a]
        /\ now' # now => disk' = disk
      ]_vars

\* C1 witness: explain answered block at the very instant now = T
C1_Witness ==
    /\ IsExplain(call)
    /\ Resolve(call.exe_path) \in DOMAIN ActiveRules(disk)
    /\ ActiveRules(disk)[Resolve(call.exe_path)].action = "block"
    /\ ActiveRules(disk)[Resolve(call.exe_path)].temporary_until = TS(now)
    /\ ret.explanation.action = "block"

\* C2: with profile P active and no explicit rule for app A in P, explain
\* returns P's default action, direction out, no temporary_until, and a
\* reason that cites the default action.
C2_DefaultActionWithoutRule ==
    (IsExplain(call) /\ Resolve(call.exe_path) \notin DOMAIN ActiveRules(disk))
    => /\ ret.status = "ok"
       /\ ret.explanation.profile = disk.active_profile
       /\ ret.explanation.action = disk.profiles[disk.active_profile].default_action
       /\ ret.explanation.direction = "out"
       /\ ret.explanation.temporary_until = NoTS
       /\ ret.explanation.reason.form = "default"
       /\ ret.explanation.reason.action =
              disk.profiles[disk.active_profile].default_action

\* C2 witness: public_wifi (default block) has no rule for /usr/bin/curl
C2_Witness ==
    /\ IsExplain(call)
    /\ call.exe_path = PathCurl
    /\ disk.active_profile = "public_wifi"
    /\ PathCurl \notin DOMAIN ActiveRules(disk)
    /\ ret.explanation.action = "block"
    /\ ret.explanation.reason.form = "default"

\* C3: set_app_action_in_profile on an existing profile leaves the rule of the
\* resolved path with the requested action and no temporary_until, whatever
\* the rule was before; the same call made again yields the same rule.
C3_SetActionClearsTemporary ==
    (call.op = "set_app_action_in_profile" /\ call.profile \in DOMAIN cfg.profiles)
    => LET a == Resolve(call.exe_path)
           rules == cfg.profiles[call.profile].app_rules
           again == set_app_action_in_profile(cfg, call.profile, call.exe_path,
                                              call.action).mem
       IN /\ ret.status = "ok"
          /\ a \in DOMAIN rules
          /\ rules[a].action = call.action
          /\ rules[a].temporary_until = NoTS
          /\ again.profiles[call.profile].app_rules[a] = rules[a]

\* C3 witness: the first call of a session sets allow, through another
\* spelling of the path, on a rule stored as block with a temporary_until
C3_Witness ==
    /\ call.op = "set_app_action_in_profile"
    /\ calls = 1
    /\ call.exe_path = PathXAlias
    /\ call.action = "allow"
    /\ call.profile \in DOMAIN disk.profiles
    /\ PathX \in DOMAIN disk.profiles[call.profile].app_rules
    /\ disk.profiles[call.profile].app_rules[PathX].temporary_until.kind = "ts"
    /\ cfg.profiles[call.profile].app_rules[PathX].temporary_until = NoTS

\* C4: apply_profile with a name that is no stored profile fails with the
\* unknown-profile error, writes nothing to the store (the active-profile
\* pointer included), emits no event and does not invoke the adapter.
C4_ApplyUnknownProfile ==
    [][ (call'.op = "apply_profile" /\ call'.profile \notin DOMAIN disk.profiles)
        => /\ ret'.status = "UnknownProfile"
           /\ disk' = disk
           /\ cfg' = cfg
           /\ trace' = <<>>
      ]_vars

\* C4 witness: apply_profile was refused
C4_Witness ==
    /\ call.op = "apply_profile"
    /\ call.profile \notin DOMAIN disk.profiles
    /\ ret.status = "UnknownProfile"

\* C5: set_temporary_allow_in_active_profile fails with the
\* not-currently-blocked error when the active profile has no rule for the app
\* or an allow rule; then no temporary_until changes, no APP_TEMP_ALLOW_SET
\* event is emitted and the adapter is not invoked.
C5_TempAllowNeedsBlock ==
    [][ (/\ IsTempAllow(call')
         /\ \/ Resolve(call'.exe_path) \notin DOMAIN ActiveRules(disk)
            \/ ActiveRules(disk)[Resolve(call'.exe_path)].action = "allow")
        => /\ ret'.status = "NotCurrentlyBlocked"
           /\ disk'.profiles = disk.profiles
           /\ cfg'.profiles = cfg.profiles
           /\ \A i \in 1..Len(trace') :
                 /\ trace'[i].e # "sync"
                 /\ trace'[i].arg # "APP_TEMP_ALLOW_SET"
      ]_vars

\* C5 witness: refused for an app the active profile allows by rule
C5_Witness ==
    /\ IsTempAllow(call)
    /\ ret.status = "NotCurrentlyBlocked"
    /\ Resolve(call.exe_path) \in DOMAIN ActiveRules(disk)
    /\ ActiveRules(disk)[Resolve(call.exe_path)].action = "allow"

\* C6: from a configuration whose active-profile key names a profile, after
\* any sequence of calls, failing ones included, the in-memory and the
\* persisted active-profile key each name an existing profile.
C6_ActiveProfileExists ==
    /\ cfg.active_profile \in DOMAIN cfg.profiles
    /\ disk.active_profile \in DOMAIN disk.profiles

\* C6 witness: after an adapter failure in apply_profile the persisted key
\* has moved and the in-memory key has not
C6_Witness ==
    /\ call.op = "apply_profile"
    /\ ret.status = "AdapterError"
    /\ calls > 1
    /\ disk.active_profile # cfg.active_profile

\* C7: get_active_profile on a configuration whose active key names no
\* profile sets the key to normal if that profile exists, else to the first
\* profile in insertion order, persists the repaired configuration and returns
\* that profile; it fails exactly when there are no profiles, persisting
\* nothing; with a valid key it returns that profile and changes and persists
\* nothing.
C7_ActiveProfileRepairOrder ==
    [][ call'.op = "get_active_profile"
        => /\ (ret'.status = "NoProfilesAvailable") <=> (DOMAIN cfg.profiles = {})
           /\ ret'.status \in {"ok", "NoProfilesAvailable"}
           /\ cfg.active_profile \in DOMAIN cfg.profiles
                => /\ ret'.profile = cfg.active_profile
                   /\ cfg' = cfg /\ disk' = disk /\ trace' = <<>>
           /\ DOMAIN cfg.profiles = {}
                => cfg' = cfg /\ disk' = disk /\ trace' = <<>>
           /\ (cfg.active_profile \notin DOMAIN cfg.profiles /\ DOMAIN cfg.profiles # {})
                => /\ ret'.profile = IF "normal" \in DOMAIN cfg.profiles THEN "normal"
                                      ELSE cfg.profile_order[1]
                   /\ cfg' = [cfg EXCEPT !.active_profile = ret'.profile]
                   /\ disk' = cfg'
                   /\ trace' = <<Saved>>
      ]_vars

\* C7 witness: no profile is named normal, and the key was repaired to the
\* first of two profiles and persisted
C7_Witness ==
    /\ call.op = "get_active_profile"
    /\ trace = <<Saved>>
    /\ "normal" \notin DOMAIN cfg.profiles
    /\ Len(cfg.profile_order) = 2
    /\ ret.profile = cfg.profile_order[1]
    /\ disk.active_profile = cfg.profile_order[1]

C9_AdapterFailureKeepsPersisted ==
    /\ (/\ call.op = "apply_profile"
         /\ call.adapter = "fail"
         /\ call.profile \in DOMAIN disk.profiles)
       => /\ ret.status = "AdapterError"
          /\ disk.active_profile = call.profile
    /\ (/\ IsTempAllow(call)
         /\ call.adapter = "fail"
         /\ Resolve(call.exe_path) \in DOMAIN ActiveRules(disk)
         /\ ActiveRules(disk)[Resolve(call.exe_path)].action = "block")
       => LET until == now + call.minutes * SecondsPerMinute * TicksPerSecond
          IN /\ ret.status = "AdapterError"
             /\ ActiveRules(disk)[Resolve(call.exe_path)].temporary_until.kind = "ts"
             /\ ActiveRules(disk)[Resolve(call.exe_path)].temporary_until.t
                   = until - (until % TicksPerSecond)

\* C9 witness: a temporary allow whose sync failed, made after the clock
\* moved, is on disk
C9_Witness ==
    /\ IsTempAllow(call)
    /\ ret.status = "AdapterError"
    /\ now > PeriodTicks
    /\ ActiveRules(disk)[Resolve(call.exe_path)].temporary_until.kind = "ts"
    /\ ActiveRules(disk)[Resolve(call.exe_path)].temporary_until.t > now

\* C10: in a window session an adapter failure leaves the in-memory
\* configuration in agreement with the persisted one, so the save made by a
\* later refresh_apps or allow/block of selected apps never reverts the
\* persisted active-profile key and never erases the persisted temporary_until
\* of an app that was not selected.
C10_LaterSaveKeepsPersisted ==
    [][ call'.op \in {"refresh_apps", "allow_selected_apps", "block_selected_apps"}
        => /\ disk'.active_profile = disk.active_profile
           /\ \A n \in DOMAIN disk.profiles :
                \A a \in DOMAIN disk.profiles[n].app_rules :
                    (\A i \in 1..Len(call'.selected) : call'.selected[i] # a)
                    => /\ a \in DOMAIN disk'.profiles[n].app_rules
                       /\ disk'.profiles[n].app_rules[a].temporary_until
                            = disk.profiles[n].app_rules[a].temporary_until
      ]_vars

----------------------------------------------------------------------------
(* Rule fields and the order of effects                                     *)

RulesOf(d) ==
    UNION {{d.profiles[n].app_rules[a] : a \in DOMAIN d.profiles[n].app_rules} :
           n \in DOMAIN d.profiles}

HasEffect(tr, kind) == \E i \in 1..Len(tr) : tr[i].e = kind

\* C11: the stored documents hold no allow rule with a temporary_until, and
\* after any sequence of calls (set_app_action_in_profile and
\* set_temporary_allow_in_active_profile among them) every rule whose
\* temporary_until is not null has action block, in the persisted
\* configuration and in the in-memory one.
C11_TemporaryOnlyOnBlock ==
    \A d \in {disk, cfg} :
        \A r \in RulesOf(d) : r.temporary_until # NoTS => r.action = "block"

\* C11 witness: the persisted rule is blocked with an allowance set by a call
\* of this session, and the in-memory rule for the same app was set to allow,
\* which cleared its temporary_until
C11_Witness ==
    /\ call.op = "set_app_action_in_profile"
    /\ call.action = "allow"
    /\ ret.status = "ok"
    /\ disk.active_profile = cfg.active_profile
    /\ \E a \in DOMAIN ActiveRules(disk) :
          /\ a \in DOMAIN ActiveRules(cfg)
          /\ ActiveRules(disk)[a].action = "block"
          /\ ActiveRules(disk)[a].temporary_until.kind = "ts"
          /\ ActiveRules(disk)[a].temporary_until.t > PeriodTicks
          /\ ActiveRules(cfg)[a] = AppRule("allow", ActiveRules(cfg)[a].direction, NoTS)

\* C12: a set_temporary_allow_in_active_profile call that reaches the rule
\* update leaves the rule's action block, sets temporary_until to the call
\* time plus the minutes (at second precision), and its effects are, in this
\* order: the save, the APP_TEMP_ALLOW_SET record, and one adapter
\* synchronization, of the active profile. The adapter never runs before the
\* save.
C12_TemporaryAllowOrder ==
    (IsTempAllow(call) /\ ret.status \in {"ok", "AdapterError"})
    => LET a == Resolve(call.exe_path)
       IN /\ a \in DOMAIN ActiveRules(disk)
          /\ ActiveRules(disk)[a].action = "block"
          /\ ActiveRules(disk)[a].temporary_until
                = IsoSeconds(now + call.minutes * MinuteTicks)
          /\ ret.profile = disk.active_profile
          /\ trace = <<Saved, LoggedWith("APP_TEMP_ALLOW_SET", a),
                       Synced(disk.active_profile)>>
          /\ \A i, j \in 1..Len(trace) :
                (trace[i].e = "sync" /\ trace[j].e = "save") => j < i

\* C12 witness: a successful call made inside a second, so the stored expiry
\* is the truncated one
C12_Witness ==
    /\ IsTempAllow(call)
    /\ ret.status = "ok"
    /\ now % TicksPerSecond # 0
    /\ ActiveRules(disk)[Resolve(call.exe_path)].temporary_until
          = TS(now - (now % TicksPerSecond) + DefaultMinutes * MinuteTicks)

\* C13: apply_profile of an existing profile makes it the persisted active
\* profile and its effects are, in this order: the save, the PROFILE_APPLIED
\* record, and one adapter synchronization, of that profile; the adapter never
\* runs before the save. set_active_profile never runs the adapter.
C13_ApplyProfileOrder ==
    /\ (call.op = "apply_profile" /\ call.profile \in DOMAIN disk.profiles)
       => /\ disk.active_profile = call.profile
          /\ ret.status \in {"ok", "AdapterError"}
          /\ trace = <<Saved, Logged("PROFILE_APPLIED"), Synced(call.profile)>>
          /\ \A i, j \in 1..Len(trace) :
                (trace[i].e = "sync" /\ trace[j].e = "save") => j < i
    /\ call.op = "set_active_profile" => ~HasEffect(trace, "sync")

\* C13 witness: apply_profile switched the persisted profile, and the session
\* that did not call it still holds the old one
C13_Witness ==
    /\ call.op = "apply_profile"
    /\ ret.status = "ok"
    /\ disk.active_profile = call.profile
    /\ cfg.active_profile # call.profile
    /\ HasEffect(trace, "sync")

\* C14: set_active_profile of a name that is no profile fails as an unknown
\* profile and leaves the in-memory configuration, the persisted one and the
\* audit log as they were; of an existing name, it makes the in-memory and the
\* persisted active_profile equal to the name and appends exactly one
\* ACTIVE_PROFILE_CHANGED record, after the save.
C14_SetActiveProfile ==
    [][ call'.op = "set_active_profile"
        => IF call'.profile \notin DOMAIN cfg.profiles
           THEN /\ ret'.status = "UnknownProfile"
                /\ cfg' = cfg
                /\ disk' = disk
                /\ trace' = <<>>
           ELSE /\ ret'.status = "ok"
                /\ cfg'.active_profile = call'.profile
                /\ disk'.active_profile = call'.profile
                /\ disk' = cfg'
                /\ trace' = <<Saved, Logged("ACTIVE_PROFILE_CHANGED")>>
      ]_vars

\* C14 witness: a successful switch to a profile other than the one that was
\* active at start
C14_Witness ==
    /\ call.op = "set_active_profile"
    /\ ret.status = "ok"
    /\ call.profile # cfg.profile_order[1]
    /\ cfg.active_profile = call.profile
    /\ disk.active_profile = call.profile

\* C15: set_app_action_in_profile, whether it creates a rule, updates one or
\* fails, leaves the persisted configuration as it was and makes neither a
\* save nor an adapter synchronization; on failure the in-memory configuration
\* and the audit log are unchanged too.
C15_SetAppActionInMemoryOnly ==
    [][ call'.op = "set_app_action_in_profile"
        => /\ disk' = disk
           /\ ~HasEffect(trace', "save")
           /\ ~HasEffect(trace', "sync")
           /\ ret'.status # "ok" => (cfg' = cfg /\ trace' = <<>>)
           /\ ret'.status = "ok" =>
                 (Len(trace') = 1 /\ trace'[1].arg = "PROFILE_APP_RULE_CHANGED")
      ]_vars

\* C15 witness: a rule was created in memory and the persisted profile still
\* has no rule for the app
C15_Witness ==
    /\ call.op = "set_app_action_in_profile"
    /\ ret.status = "ok"
    /\ trace = <<LoggedWith("PROFILE_APP_RULE_CHANGED", "created")>>
    /\ Resolve(call.exe_path) \in DOMAIN cfg.profiles[call.profile].app_rules
    /\ Resolve(call.exe_path) \notin DOMAIN disk.profiles[call.profile].app_rules

NonLog(tr) == SelectSeq(tr, LAMBDA x : x.e # "log")

\* C16: log_event never raises, whatever fails in the audit sink (creating
\* the log directory, opening the file, serializing or writing the entry): it
\* returns normally, and a call that logs (apply_profile, explain) has the
\* result, the persisted configuration and the other effects it has when the
\* log works.
C16_LogEventNeverRaises ==
    [][ call'.sink # ""
        => /\ ret'.status # "OSError"
           /\ call'.op = "apply_profile" =>
                 LET r == apply_profile(disk, call'.profile, call'.adapter)
                 IN /\ ret'.status = r.status
                    /\ disk' = r.disk
                    /\ NonLog(trace') = NonLog(r.trace)
           /\ call'.op = "explain_app_in_active_profile" =>
                 LET r == explain_app_in_active_profile(disk, call'.exe_path, now)
                 IN /\ ret'.status = r.status
                    /\ ret'.explanation = r.explanation
                    /\ disk' = r.disk
      ]_vars

Suffix(lines, n) ==
    IF n >= Len(lines) THEN lines ELSE SubSeq(lines, Len(lines) - n + 1, Len(lines))

\* C17: for every log content and every limit N >= 0, get_recent_events(N)
\* returns at most N events: the well-formed records among the last N lines,
\* in file order, malformed and blank lines skipped; and log_event appends at
\* most one line and changes no existing line.
C17_RecentEventsAtMostLimit ==
    [][ /\ call'.op = "get_recent_events" =>
              /\ ret'.status = "ok"
              /\ Len(ret'.events) <= call'.limit
              /\ ret'.events = parse_lines(Suffix(log_file, call'.limit))
              /\ log_file' = log_file
        /\ call'.op = "log_event" =>
              \/ log_file' = log_file
              \/ /\ Len(log_file') = Len(log_file) + 1
                 /\ SubSeq(log_file', 1, Len(log_file)) = log_file
      ]_vars

\* what a merge of the discovered apps may change; keeps_name says whether
\* the name of a known app is left as it was even when it is empty
MergeIsAdditive(keeps_name) ==
    call'.op = "merge_discovered_apps_into_config"
        => LET discovered == call'.discovered
           IN /\ DOMAIN cfg'.apps = DOMAIN cfg.apps \cup discovered
              /\ \A a \in DOMAIN cfg.apps :
                    IF a \notin discovered
                    THEN cfg'.apps[a] = cfg.apps[a]
                    ELSE /\ cfg'.apps[a].tags = cfg.apps[a].tags
                         /\ cfg'.apps[a].pinned = cfg.apps[a].pinned
                         /\ cfg'.apps[a].last_seen = IsoSeconds(now)
                         /\ cfg'.apps[a].name =
                               IF keeps_name \/ cfg.apps[a].name # ""
                               THEN cfg.apps[a].name
                               ELSE ProcessName(a)
              /\ discovered = {} => cfg' = cfg
              /\ cfg'.profiles = cfg.profiles
              /\ cfg'.active_profile = cfg.active_profile
              /\ disk' = disk
              /\ ~HasEffect(trace', "save")

\* C18 as stated: the merge removes no entry of cfg.apps, inserts every
\* discovered identity not yet known, for a known identity changes no field
\* other than last_seen (name, tags and pinned stay as they were), leaves cfg
\* unchanged when nothing is discovered, and never persists.
C18_MergeChangesOnlyLastSeen == [][MergeIsAdditive(TRUE)]_vars

\* C18 amended: as above, except that the name of a known identity is filled
\* with the discovered process name when it is empty; a name that is set,
\* tags and pinned are never changed.
C18_MergeKeepsSetName == [][MergeIsAdditive(FALSE)]_vars

\* C18 witness: a pinned, tagged app that was registered without a name was
\* discovered again and now carries the process name, while another
\* registered app that was not discovered is still there
C18_Witness ==
    /\ call.op = "merge_discovered_apps_into_config"
    /\ \E a \in call.discovered :
          /\ cfg.apps[a].pinned
          /\ cfg.apps[a].tags = {"work"}
          /\ cfg.apps[a].name = ProcessName(a)
          /\ cfg.apps[a].last_seen = IsoSeconds(now)
          /\ a \in DOMAIN disk.apps
          /\ disk.apps[a].name = ""
    /\ \E b \in DOMAIN cfg.apps : b \notin call.discovered

\* C19: a rule whose temporary_until is not a parseable timestamp is treated
\* as having no override: explain (here from the window) returns normally
\* with the rule's stored action and the explicit-rule reason, and the status
\* column of the apps table shows the stored action, not ALLOW (TEMP).
C19_UnparseableTemporaryIgnored ==
    /\ (/\ call.op = "explain_selected_app"
        /\ Resolve(call.exe_path) \in DOMAIN ActiveRules(disk)
        /\ ActiveRules(disk)[Resolve(call.exe_path)].temporary_until.kind = "bad")
       => LET rule == ActiveRules(disk)[Resolve(call.exe_path)]
          IN /\ ret.status = "ok"
             /\ ret.explanation.action = rule.action
             /\ ret.explanation.reason.form = "explicit"
             /\ ret.explanation.reason.action = rule.action
    /\ current_profile_name \in DOMAIN cfg.profiles
       => \A a \in DOMAIN cfg.apps :
             LET profile == cfg.profiles[current_profile_name]
             IN (/\ a \in DOMAIN profile.app_rules
                 /\ profile.app_rules[a].temporary_until.kind = "bad")
                => status_display(profile, a, now) = Upper(profile.app_rules[a].action)

\* C19 witness: the window explained an app whose block rule carries an
\* unparseable temporary_until, and the table shows it as BLOCK
C19_Witness ==
    /\ call.op = "explain_selected_app"
    /\ Resolve(call.exe_path) \in DOMAIN ActiveRules(disk)
    /\ ActiveRules(disk)[Resolve(call.exe_path)] = AppRule("block", "in", BadTS)
    /\ ret.explanation.action = "block"
    /\ ret.explanation.temporary_until = BadTS
    /\ current_profile_name = disk.active_profile
    /\ cfg.profiles[current_profile_name].app_rules[call.exe_path].temporary_until = BadTS
    /\ status_display(cfg.profiles[current_profile_name], call.exe_path, now) = "BLOCK"

\* C20: the reason of an explanation has the temporary form exactly when the
\* app has a block rule with a parseable temporary_until later than now, the
\* explicit form (with the stored action and direction) exactly when it has
\* a rule and no active temporary allowance, and the default form exactly
\* when it has no rule; the action the reason names is the returned effective
\* action.
C20_ReasonThreeCases ==
    (IsExplain(call) /\ ret.status = "ok")
    => LET a == Resolve(call.exe_path)
           rules == ActiveRules(disk)
           e == ret.explanation
           has_rule == a \in DOMAIN rules
           allowance == /\ has_rule
                        /\ rules[a].action = "block"
                        /\ rules[a].temporary_until.kind = "ts"
                        /\ now < rules[a].temporary_until.t
       IN /\ e.reason.form \in {"temporary", "explicit", "default"}
          /\ e.reason.form = "temporary" <=> allowance
          /\ e.reason.form = "explicit" <=> (has_rule /\ ~allowance)
          /\ e.reason.form = "default" <=> ~has_rule
          /\ e.reason.action = e.action
          /\ e.reason.form = "temporary" =>
                (e.action = "allow" /\ e.reason.until = rules[a].temporary_until)
          /\ e.reason.form = "explicit" =>
                /\ e.reason.action = rules[a].action
                /\ e.reason.direction = rules[a].direction
          /\ e.reason.form = "default" =>
                e.reason.action = disk.profiles[disk.active_profile].default_action

\* C20 witness: a block rule whose temporary allowance has expired is
\* explained in the explicit form
C20_Witness ==
    /\ IsExplain(call)
    /\ ret.status = "ok"
    /\ ret.explanation.reason.form = "explicit"
    /\ ret.explanation.reason.action = "block"
    /\ ret.explanation.temporary_until.kind = "ts"
    /\ now >= ret.explanation.temporary_until.t

OnlyTemporaryUntilChanged(d1, d2, n, a) ==
    /\ n \in DOMAIN d1.profiles
    /\ a \in DOMAIN d1.profiles[n].app_rules
    /\ d2 = [d1 EXCEPT !.profiles[n].app_rules[a].temporary_until
                           = d2.profiles[n].app_rules[a].temporary_until]

\* C22 as stated: a successful set_temporary_allow_in_active_profile changes
\* nothing but the temporary_until of the one rule for the given app in the
\* active profile: rules of other apps, every rule of every other profile,
\* default actions, the app registry and the active-profile key are as they
\* were.
C22_TempAllowChangesOneField ==
    [][ (IsTempAllow(call') /\ ret'.status = "ok")
        => /\ OnlyTemporaryUntilChanged(disk, disk', disk'.active_profile,
                                        Resolve(call'.exe_path))
           /\ cfg' = cfg
      ]_vars

\* C22 amended: a successful call changes nothing but the temporary_until of
\* the one rule for the given app in the active profile, and, when the stored
\* active-profile key names no profile, the key, which is first repaired
\* (normal, else the first profile) and persisted; with a valid stored key
\* the key is unchanged. The caller's in-memory configuration is untouched.
C22_TempAllowChangesOneFieldAndRepairs ==
    [][ (IsTempAllow(call') /\ ret'.status = "ok")
        => LET n == IF disk.active_profile \in DOMAIN disk.profiles
                    THEN disk.active_profile
                    ELSE IF "normal" \in DOMAIN disk.profiles
                    THEN "normal"
                    ELSE disk.profile_order[1]
           IN /\ disk'.active_profile = n
              /\ ret'.profile = n
              /\ OnlyTemporaryUntilChanged([disk EXCEPT !.active_profile = n], disk',
                                           n, Resolve(call'.exe_path))
              /\ disk'.profiles[n].app_rules[Resolve(call'.exe_path)].action = "block"
              /\ cfg' = cfg
      ]_vars

\* C22 witness: the stored key named no profile; the call repaired it,
\* persisted the repair, then granted the allowance in the repaired profile,
\* whose other profile has a rule for the same app that no allowance touched
C22_Witness ==
    /\ IsTempAllow(call)
    /\ ret.status = "ok"
    /\ trace = <<Saved, Saved, LoggedWith("APP_TEMP_ALLOW_SET", PathX), Synced(ret.profile)>>
    /\ cfg.active_profile \notin DOMAIN cfg.profiles
    /\ disk.active_profile = ret.profile
    /\ ActiveRules(disk)[PathX].temporary_until.t > PeriodTicks
    /\ \E m \in DOMAIN disk.profiles :
          /\ m # disk.active_profile
          /\ PathX \in DOMAIN disk.profiles[m].app_rules
          /\ disk.profiles[m].app_rules[PathX].temporary_until = NoTS

\* the action in force for app a under profile n of d at time t: allow while
\* a block rule's temporary_until is later than t, else the rule's action,
\* else the profile default
EffectiveAction(d, n, a, t) ==
    LET profile == d.profiles[n]
    IN IF a \in DOMAIN profile.app_rules
       THEN IF /\ profile.app_rules[a].action = "block"
               /\ profile.app_rules[a].temporary_until.kind = "ts"
               /\ t < profile.app_rules[a].temporary_until.t
            THEN "allow"
            ELSE profile.app_rules[a].action
       ELSE profile.default_action

IsChangeSelected(c) == c.op \in {"allow_selected_apps", "block_selected_apps"}

\* C24: when allow_selected_apps or block_selected_apps ran with at least
\* one selected app whose rule was set, the persisted rule of every such app
\* in the current profile has the chosen action and no temporary_until, a
\* save precedes the adapter synchronization, and the synchronization was
\* made, once, for the current profile, whether or not the adapter failed;
\* with nothing selected or no rule set, nothing is persisted, the adapter is
\* not called and the in-memory configuration is unchanged.
C24_ChangeSelectedPersistsThenSyncs ==
    [][ IsChangeSelected(call')
        => LET cur == current_profile_name
               selected == call'.selected
           IN IF selected # <<>> /\ cur \in DOMAIN cfg.profiles
              THEN /\ cur \in DOMAIN disk'.profiles
                   /\ \A i \in 1..Len(selected) :
                         /\ Resolve(selected[i]) \in DOMAIN disk'.profiles[cur].app_rules
                         /\ disk'.profiles[cur].app_rules[Resolve(selected[i])].action
                               = call'.action
                         /\ disk'.profiles[cur].app_rules[Resolve(selected[i])]
                               .temporary_until = NoTS
                   /\ \E j \in 1..Len(trace') :
                         /\ trace'[j] = Synced(cur)
                         /\ \A k \in 1..Len(trace') : trace'[k].e = "sync" => k = j
                         /\ \E i \in 1..(j - 1) : trace'[i] = Saved
                         /\ \A i \in 1..Len(trace') : trace'[i] = Saved => i < j
              ELSE /\ disk' = disk
                   /\ cfg' = cfg
                   /\ ~HasEffect(trace', "save")
                   /\ ~HasEffect(trace', "sync")
      ]_vars

\* C24 witness: two selected apps were blocked in the current profile; both
\* persisted rules are plain block rules although the adapter failed
C24_Witness ==
    /\ call.op = "block_selected_apps"
    /\ Len(call.selected) = 2
    /\ ret.status = "AdapterError"
    /\ \A i \in 1..2 :
          /\ call.selected[i] \in DOMAIN disk.profiles[current_profile_name].app_rules
          /\ disk.profiles[current_profile_name].app_rules[call.selected[i]].action = "block"
          /\ disk.profiles[current_profile_name].app_rules[call.selected[i]]
                .temporary_until = NoTS
    /\ HasEffect(trace, "sync")

IsAppHandler(c) ==
    c.op \in {"explain_selected_app", "temp_allow_selected_app",
              "allow_selected_apps", "block_selected_apps"}

\* C25: whenever a handler for the selected apps runs (explain, temporary
\* allow, allow, block), the profile the window treats as current is the
\* persisted active profile, also after handlers in which apply_profile or
\* the adapter failed; so the profile whose statuses are shown is the one
\* explain and temporary allow operate on.
C25_CurrentProfileIsPersistedActive ==
    [][ IsAppHandler(call')
        => /\ current_profile_name = disk.active_profile
           /\ (call'.op = "explain_selected_app" /\ ret'.status = "ok")
                 => ret'.explanation.profile = current_profile_name'
      ]_vars

\* the table's status and an explanation are the same decision
SameDecision(status, e) ==
    /\ status = "ALLOW (TEMP)" <=> e.reason.form = "temporary"
    /\ status # "ALLOW (TEMP)" => status = Upper(e.action)
    /\ e.reason.form = "temporary" => e.action = "allow"

\* C26: for every profile, every registered app and every now, with that
\* profile active, the status the apps table shows and the answer of explain
\* are the same decision: the table shows ALLOW (TEMP) exactly when explain
\* reports an active temporary allowance, and otherwise the upper-cased action
\* explain returns (the rule's, or the profile default without a rule). This
\* holds of the persisted configuration and of the one the window holds.
C26_TableAgreesWithExplain ==
    /\ \A d \in {disk, cfg} : \A n \in DOMAIN d.profiles : \A a \in DOMAIN d.apps :
          LET r == explain_app_in_active_profile([d EXCEPT !.active_profile = n], a, now)
          IN /\ r.status = "ok"
             /\ SameDecision(status_display(d.profiles[n], a, now), r.explanation)
    /\ (call.op = "explain_selected_app" /\ ret.status = "ok")
       => SameDecision(status_display(disk.profiles[disk.active_profile],
                                      call.exe_path, now),
                       ret.explanation)

\* C26 witness: the window explained an app while its temporary allowance
\* was running, and the table row of that app shows ALLOW (TEMP); a profile
\* that is not active gives the same app a plain status
C26_Witness ==
    /\ call.op = "explain_selected_app"
    /\ ret.status = "ok"
    /\ ret.explanation.reason.form = "temporary"
    /\ now > 0
    /\ status_display(disk.profiles[disk.active_profile], call.exe_path, now)
          = "ALLOW (TEMP)"
    /\ \E n \in DOMAIN disk.profiles :
          status_display(disk.profiles[n], call.exe_path, now) = "BLOCK"

\* C27: every adapter synchronization a call makes (apply_profile,
\* set_temporary_allow_in_active_profile) is of the profile that is the
\* persisted active profile when the adapter is called, which is an existing
\* profile; no call synchronizes another profile. This holds also when the
\* stored key named no profile before the call.
C27_SyncTargetsPersistedActive ==
    \A i \in 1..Len(trace) :
        trace[i].e = "sync"
        => /\ trace[i].arg = disk.active_profile
           /\ trace[i].arg \in DOMAIN disk.profiles
           /\ \E j \in 1..(i - 1) : trace[j] = Saved
           /\ \A j \in (i + 1)..Len(trace) : trace[j].e # "save"

\* C27 witness: apply_profile switched away from a stored key that named no
\* profile; the adapter was called for the new persisted active profile and
\* failed
C27_Witness ==
    /\ call.op = "apply_profile"
    /\ ret.status = "AdapterError"
    /\ cfg.active_profile \notin DOMAIN cfg.profiles
    /\ Len(trace) = 3
    /\ trace[3] = Synced(disk.active_profile)
    /\ disk.active_profile = call.profile

\* C28: a successful set_app_action_in_profile changes only the one rule for
\* the canonicalized app in the named profile of the in-memory configuration:
\* rules of other apps, all rules of other profiles, default actions, the app
\* registry and the active-profile key are as they were. The rule gets the
\* chosen action; an existing rule keeps its direction, a new one is
\* outbound; and the PROFILE_APP_RULE_CHANGED record has change_type created
\* exactly when no rule existed before the call, updated otherwise.
C28_SetAppActionChangesOneRule ==
    [][ (call'.op = "set_app_action_in_profile" /\ ret'.status = "ok")
        => LET n == call'.profile
               a == Resolve(call'.exe_path)
               existed == a \in DOMAIN cfg.profiles[n].app_rules
               old_rules == cfg.profiles[n].app_rules
           IN /\ n \in DOMAIN cfg.profiles
              /\ a \in DOMAIN cfg'.profiles[n].app_rules
              /\ cfg' = [cfg EXCEPT !.profiles[n].app_rules =
                            [b \in DOMAIN old_rules \cup {a} |->
                                IF b = a THEN cfg'.profiles[n].app_rules[a]
                                ELSE old_rules[b]]]
              /\ cfg'.profiles[n].app_rules[a].action = call'.action
              /\ cfg'.profiles[n].app_rules[a].direction =
                    IF existed THEN old_rules[a].direction ELSE "out"
              /\ trace' = <<LoggedWith("PROFILE_APP_RULE_CHANGED",
                                       IF existed THEN "updated" ELSE "created")>>
      ]_vars

\* C28 witness: a rule that applies in both directions was updated by the
\* app's other path: it kept its direction, the record says updated, and the
\* profile's rule for another app is as persisted
C28_Witness ==
    /\ call.op = "set_app_action_in_profile"
    /\ call.exe_path = PathXAlias
    /\ ret.status = "ok"
    /\ trace = <<LoggedWith("PROFILE_APP_RULE_CHANGED", "updated")>>
    /\ PathX \in DOMAIN disk.profiles[call.profile].app_rules
    /\ disk.profiles[call.profile].app_rules[PathX].action # call.action
    /\ cfg.profiles[call.profile].app_rules[PathX]
          = AppRule(call.action, "in", NoTS)
    /\ PathCurl \in DOMAIN cfg.profiles[call.profile].app_rules
    /\ PathCurl \in DOMAIN disk.profiles[call.profile].app_rules
    /\ cfg.profiles[call.profile].app_rules[PathCurl]
          = disk.profiles[call.profile].app_rules[PathCurl]

====
